---- MODULE Spec2Model ----
(***************************************************************************)
(* Model of the two observability components of the repository:            *)
(*   - AuthorizerInstrumentation (authz/src/instrumentation.rs): a latency *)
(*     decorator over an Authorizer, recording the duration of every       *)
(*     permissions() call into a success or an error histogram;            *)
(*   - InstrumentedDiskProtection (tracker/src/disk_protection.rs): a      *)
(*     background task that publishes the free-space percentage of the     *)
(*     disk backing a directory, with start / stop / Drop.                 *)
(***************************************************************************)
EXTENDS Integers, Sequences, FiniteSets, TLC

(***************************************************************************)
(* Bounds of the model.                                                    *)
(***************************************************************************)
MaxCalls == 2
MaxTime == 1
MaxTasks == 2
MaxStops == 2
MaxSets == 2
MaxTicks == 2
MaxDisks == 1
MaxMounts == 2
MaxBytes == 40

\* Option::None of a task handle, an instant or a duration.
None == -1
\* No Result yet.
NoResult == [ok |-> FALSE, val |-> << >>]

(***************************************************************************)
(* Values of the authorizer: Result<Vec<Permission>, Error>.               *)
(***************************************************************************)
Ok(v) == [ok |-> TRUE, val |-> v]
Err(e) == [ok |-> FALSE, val |-> <<e>>]
Results == {Ok(<<>>), Ok(<<"write_foo">>), Err("verification"), Err("unavailable")}
Calls == 1..MaxCalls
Times == 0..MaxTime

\* The operations the decorated authorizer exposes.
Ops == {"permissions", "require_any_permission"}

VARIABLES
  call,       \* per call of an operation: its position and locals
  success,    \* ioxauth_rpc_duration_success
  error,      \* ioxauth_rpc_duration_error
  overlapped  \* some call began while another was awaiting the inner call

avars == <<call, success, error, overlapped>>

VARIABLES
  callerHolds, \* the caller owns the InstrumentedDiskProtection by value
  startPc,     \* position of start(): "idle", "spawned" (rc_self alive), "returned"
  pending,     \* the JoinHandle returned by spawn, not yet stored
  handle,      \* background_task: Mutex<Option<JoinHandle<()>>>
  tasks,       \* the spawned background tasks
  detached,    \* tasks whose JoinHandle was dropped without abort
  destroyed,   \* Drop::drop has run
  panicked,    \* a method of the sampler panicked
  stopCalls,   \* explicit stop() calls made by the owner
  gauge,       \* available_disk_space_percent
  disks,       \* the mounted disks, as sysinfo lists them
  runtime      \* the tokio runtime: "up" or "down"

svars == <<callerHolds, startPc, pending, handle, tasks, detached, destroyed,
           panicked, stopCalls, gauge, disks, runtime>>

VARIABLES
  sample,      \* one measurement taken alone: its directory and its disks
  published    \* what that measurement found and left in the gauge

mvars == <<sample, published>>

vars == <<call, success, error, overlapped, callerHolds, startPc, pending, handle, tasks,
          detached, destroyed, panicked, stopCalls, gauge, disks, runtime,
          sample, published>>

\* DurationHistogram: the samples recorded so far.
EmptyHistogram == [count |-> 0, total |-> 0]
record_overwrite(h, delta) == [count |-> 1, total |-> delta]
record(h, delta) == [count |-> h.count + 1, total |-> h.total + delta]
sample_count(h) == h.count

\* Time::checked_duration_since: None when `later` is before `earlier`.
checked_duration_saturating(later, earlier) ==
  IF later >= earlier THEN later - earlier ELSE 0
checked_duration_since(later, earlier) ==
  IF later >= earlier THEN later - earlier ELSE None

\* match &res { Ok(_) => success.record(delta), Err(_) => error.record(delta) }
record_by_decision(res, delta, hs) ==
  IF res.ok /\ res.val # << >> THEN [hs EXCEPT !.success = record(@, delta)]
                               ELSE [hs EXCEPT !.error = record(@, delta)]
record_swapped(res, delta, hs) ==
  IF res.ok THEN [hs EXCEPT !.error = record(@, delta)]
            ELSE [hs EXCEPT !.success = record(@, delta)]
record_ok_only(res, delta, hs) ==
  IF res.ok THEN [hs EXCEPT !.success = record(@, delta)] ELSE hs
record_result(res, delta, hs) ==
  IF res.ok THEN [hs EXCEPT !.success = record(@, delta)]
            ELSE [hs EXCEPT !.error = record(@, delta)]

\* if let Some(delta) = now().checked_duration_since(t) { ... }
observe(res, t0, t1, hs) ==
  IF checked_duration_since(t1, t0) # None
    THEN record_result(res, checked_duration_since(t1, t0), hs)
    ELSE hs

\* The value permissions() hands back: `res`, untouched.
returned_suppressed(res) == IF res.ok THEN res ELSE Ok(<<>>)
returned(res) == res

\* Authorizer::require_any_permission, the provided method of the trait: it
\* awaits self.permissions(), passes an Err on, and turns an empty permission
\* list into an error.
require_any_permission(res) ==
  IF ~res.ok THEN res
  ELSE IF res.val = << >> THEN Err("forbidden")
  ELSE Ok(<< >>)

\* What the caller of operation op gets from permissions() returning ret.
outcome(op, ret) ==
  IF op = "require_any_permission" THEN require_any_permission(ret) ELSE ret

IdleCall ==
  [pc |-> "idle", op |-> "permissions", t |-> None, tEnd |-> None,
   inner |-> NoResult, ret |-> NoResult, got |-> NoResult]

AuthzInit ==
  /\ call = [c \in Calls |-> IdleCall]
  /\ success = EmptyHistogram
  /\ error = EmptyHistogram
  /\ overlapped = FALSE

\* let t = now(); self.inner.permissions(token, perms) is awaited.
PermissionsBegin(c) ==
  /\ call[c].pc = "idle"
  /\ \E t0 \in Times, op \in Ops :
       call' = [call EXCEPT ![c].pc = "awaiting", ![c].op = op, ![c].t = t0]
  /\ overlapped' = (overlapped \/ \E d \in Calls \ {c} : call[d].pc = "awaiting")
  /\ UNCHANGED <<success, error, svars, mvars>>

\* The inner future resolves with res; the rest of the body runs to the return.
PermissionsComplete(c) ==
  /\ call[c].pc = "awaiting"
  /\ \E res \in Results, t1 \in Times :
       LET hs == observe(res, call[c].t, t1, [success |-> success, error |-> error])
       IN /\ success' = hs.success
          /\ error' = hs.error
          /\ call' = [call EXCEPT ![c].pc = "done", ![c].tEnd = t1,
                                  ![c].inner = res, ![c].ret = returned(res),
                                  ![c].got = outcome(call[c].op, returned(res))]
  /\ UNCHANGED <<overlapped, svars, mvars>>

\* The caller drops the permissions() future while it awaits the inner call:
\* its locals are gone and the rest of the body never runs.
PermissionsAbandonRecords(c) ==
  /\ call[c].pc = "awaiting"
  /\ call' = [call EXCEPT ![c].pc = "abandoned", ![c].t = None]
  /\ error' = record(error, 0)
  /\ UNCHANGED <<success, overlapped, svars, mvars>>
PermissionsAbandon(c) ==
  /\ call[c].pc = "awaiting"
  /\ call' = [call EXCEPT ![c].pc = "abandoned", ![c].t = None]
  /\ UNCHANGED <<success, error, overlapped, svars, mvars>>

AuthzNext ==
  \E c \in Calls :
    \/ PermissionsBegin(c)
    \/ PermissionsComplete(c)
    \/ PermissionsAbandon(c)

(***************************************************************************)
(* InstrumentedDiskProtection.                                             *)
(***************************************************************************)
TaskIds == 1..MaxTasks
\* u64::MAX, the result of casting +inf; the largest integer TLC represents
\* stands for it.
U64Max == 2147483647

\* self.directory, and the mount points a disk can have.
Directory == <<"data", "db">>
\* The disks the operating system may list: the root, an ancestor of the
\* directory, the directory itself (an empty file system) and an unrelated one.
Disk ==
  { [mount |-> << >>, avail |-> 1, total |-> 2],
    [mount |-> <<"data">>, avail |-> 50, total |-> 200],
    [mount |-> <<"data", "db">>, avail |-> 0, total |-> 0],
    [mount |-> <<"mnt">>, avail |-> 2, total |-> 2] }

\* PathBuf::pop: drop the last component; false when there is no parent.
pop_ok(path) == Len(path) > 0
pop(path) == SubSeq(path, 1, Len(path) - 1)

\* .iter_mut().find(|disk| disk.mount_point() == path): first match, 0 if none.
find(ds, path) ==
  IF \E i \in 1..Len(ds) : ds[i].mount = path
    THEN CHOOSE i \in 1..Len(ds) :
           /\ ds[i].mount = path
           /\ \A j \in 1..(i - 1) : ds[j].mount # path
    ELSE 0

\* path starts with the components of mount.
IsPrefix(mount, path) ==
  Len(mount) <= Len(path) /\ SubSeq(path, 1, Len(mount)) = mount

\* The loop of lines 39-50: the index of the disk found, 0 for None.
fnd_disk_first_prefix(ds, path) ==
  IF \E i \in 1..Len(ds) : IsPrefix(ds[i].mount, path)
    THEN CHOOSE i \in 1..Len(ds) :
           /\ IsPrefix(ds[i].mount, path)
           /\ \A j \in 1..(i - 1) : ~IsPrefix(ds[j].mount, path)
    ELSE 0
RECURSIVE fnd_disk(_, _)
fnd_disk(ds, path) ==
  IF find(ds, path) # 0 THEN find(ds, path)
  ELSE IF ~pop_ok(path) THEN 0
  ELSE fnd_disk(ds, pop(path))

(***************************************************************************)
(* f64 arithmetic: a positive double is its 53 significand bits m, most    *)
(* significant first, and the exponent e of the first of them, so that its *)
(* value is the sum of m[i] * 2^(e + 1 - i).                               *)
(***************************************************************************)
F64Bits == 53

\* Scale n / d into [1, 2): n / d * 2^e is the quotient asked for.
RECURSIVE f64_normalize(_, _, _)
f64_normalize(n, d, e) ==
  IF n >= 2 * d THEN f64_normalize(n, 2 * d, e + 1)
  ELSE IF n < d THEN f64_normalize(2 * n, d, e - 1)
  ELSE [n |-> n, d |-> d, e |-> e]

\* 2^i modulo d, by repeated squaring (d * d stays a small integer).
RECURSIVE pow2_mod(_, _)
pow2_mod(i, d) ==
  IF i = 0 THEN 1 % d
  ELSE IF i % 2 = 0 THEN (pow2_mod(i \div 2, d) * pow2_mod(i \div 2, d)) % d
  ELSE (2 * pow2_mod(i - 1, d)) % d

\* The next n bits of r / d, for 0 <= r < d, and what is left after them:
\* bit i is set when twice the remainder before it reaches d.
quotient_bits(r, d, n) ==
  [i \in 1..n |-> IF 2 * ((r * pow2_mod(i - 1, d)) % d) >= d THEN 1 ELSE 0]

quotient_rest(r, d, n) == (r * pow2_mod(n, d)) % d

\* bits + 1, for bits that are not all ones.
increment(bits) ==
  LET z == CHOOSE k \in 1..Len(bits) :
             bits[k] = 0 /\ \A l \in (k + 1)..Len(bits) : bits[l] = 1
  IN [k \in 1..Len(bits) |-> IF k < z THEN bits[k] ELSE IF k = z THEN 1 ELSE 0]

\* Round to nearest, ties to even: bits holds the 53 bits kept and the first
\* bit dropped; sticky tells whether a later dropped bit is set.
f64_round_even(bits, e, sticky) ==
  LET m == SubSeq(bits, 1, F64Bits)
      guard == bits[F64Bits + 1]
      up == guard = 1 /\ (sticky \/ m[F64Bits] = 1)
  IN IF ~up THEN [m |-> m, e |-> e]
     ELSE IF \A i \in 1..F64Bits : m[i] = 1
       THEN [m |-> <<1>> \o [i \in 1..(F64Bits - 1) |-> 0], e |-> e + 1]
     ELSE [m |-> increment(m), e |-> e]

\* (a as f64) / (b as f64), for integers a, b > 0 below 2^53.
f64_div(a, b) ==
  LET nm == f64_normalize(a, b, 0)
  IN f64_round_even(<<1>> \o quotient_bits(nm.n - nm.d, nm.d, F64Bits),
                    nm.e,
                    quotient_rest(nm.n - nm.d, nm.d, F64Bits) # 0)

\* The integer whose binary digits are bits (fewer than 31 of them).
RECURSIVE bits_value(_)
bits_value(bits) ==
  IF Len(bits) = 0 THEN 0
  ELSE IF Len(bits) = 1 THEN bits[1]
  ELSE LET h == Len(bits) \div 2
       IN bits_value(SubSeq(bits, 1, h)) * 2^(Len(bits) - h)
            + bits_value(SubSeq(bits, h + 1, Len(bits)))

\* The n low binary digits of v, and all the binary digits of v > 0.
low_bits(v, n) == [i \in 1..n |-> (v \div 2^(n - i)) % 2]
binary(v) ==
  low_bits(v, CHOOSE n \in 1..30 : 2^(n - 1) <= v /\ v < 2^n)

\* The exact product of the 53-bit integer `bits` and the small integer k,
\* taken in three limbs of at most 20 bits.
Limb == 2^20
times_small(bits, k) ==
  LET lo == bits_value(SubSeq(bits, 34, 53)) * k
      mi == bits_value(SubSeq(bits, 14, 33)) * k + lo \div Limb
      hi == bits_value(SubSeq(bits, 1, 13)) * k + mi \div Limb
  IN binary(hi) \o low_bits(mi % Limb, 20) \o low_bits(lo % Limb, 20)

\* x * (k as f64), for a small integer k >= 2.
f64_mul(x, k) ==
  LET p == times_small(x.m, k)
  IN f64_round_even(p \o <<0>>, x.e + (Len(p) - F64Bits),
                    \E i \in (F64Bits + 2)..Len(p) : p[i] = 1)

\* x.round() as u64: to the nearest integer, halves away from zero.
f64_round_as_u64(x) ==
  IF x.e < -1 THEN 0
  ELSE IF x.e = -1 THEN 1
  ELSE bits_value(SubSeq(x.m, 1, x.e + 1))
         + (IF x.e + 2 <= F64Bits THEN x.m[x.e + 2] ELSE 0)

\* round(available / total * 100) in exact arithmetic, halves up.
exact_percentage(available, total) ==
  (200 * available + total) \div (2 * total)

\* ((available as f64) / (total as f64) * 100.0).round() as u64
\* 0/0 is NaN and casts to 0; x/0 is +inf and casts to u64::MAX.
percentage_nan_as_max(available, total) ==
  IF total = 0 THEN U64Max
  ELSE IF available = 0 THEN 0
  ELSE f64_round_as_u64(f64_mul(f64_div(available, total), 100))
available_disk_percentage(available, total) ==
  IF total = 0 THEN (IF available = 0 THEN 0 ELSE U64Max)
  ELSE IF available = 0 THEN 0
  ELSE f64_round_as_u64(f64_mul(f64_div(available, total), 100))

\* U64Gauge::set
set(g, v) == [value |-> v, sets |-> g.sets + 1]

\* measure_available_disk_space_percent, for a sampler of directory dir.
measure_reset_when_missing(dir, g, ds) ==
  IF fnd_disk(ds, dir) # 0
    THEN set(g, available_disk_percentage(ds[fnd_disk(ds, dir)].avail,
                                          ds[fnd_disk(ds, dir)].total))
    ELSE set(g, 0)
measure(dir, g, ds) ==
  IF fnd_disk(ds, dir) # 0
    THEN set(g, available_disk_percentage(ds[fnd_disk(ds, dir)].avail,
                                          ds[fnd_disk(ds, dir)].total))
    ELSE g

\* measure_available_disk_space_percent
measure_available_disk_space_percent(g, ds) == measure(Directory, g, ds)

\* tokio::time::interval(Duration::from_secs(10))
Interval == 10

\* A task: its position in the loop, the aborts requested of it, whether its
\* future holds rc_self_clone, the outcome of its last two measurements
\* ("none", "published", "skipped") and how many measurements and completed
\* tick awaits it has made.
NoTask ==
  [st |-> "unspawned", aborts |-> 0, arc |-> FALSE, last |-> "none",
   prev |-> "none", measures |-> 0, ticks |-> 0]

\* The future handed to spawn: it owns rc_self_clone and starts at the top of
\* the loop, with the measurement.
spawned_task_tick_first == [NoTask EXCEPT !.st = "waiting", !.arc = TRUE]
spawned_task == [NoTask EXCEPT !.st = "spawned", !.arc = TRUE]

\* The task after one measurement: whether or not a disk was found, it goes
\* on to interval.tick().await.
after_measure_fatal(task, found) ==
  IF found
    THEN [task EXCEPT !.st = "waiting", !.prev = task.last, !.last = "published",
                      !.measures = @ + 1]
    ELSE [task EXCEPT !.st = "ended", !.arc = FALSE, !.prev = task.last,
                      !.last = "skipped", !.measures = @ + 1]
after_measure(task, found) ==
  [task EXCEPT !.st = "waiting", !.prev = task.last,
               !.last = IF found THEN "published" ELSE "skipped",
               !.measures = @ + 1]
Alive(t) == tasks[t].st \in {"spawned", "ready", "waiting"}

\* Arc strong count: rc_self while start runs, rc_self_clone in each task.
StrongCountWithoutTasks == IF startPc = "spawned" THEN 1 ELSE 0
StrongCount ==
  (IF startPc = "spawned" THEN 1 ELSE 0) + Cardinality({t \in TaskIds : tasks[t].arc})

\* JoinHandle::abort
abort(ts, t) == [ts EXCEPT ![t].aborts = @ + 1]

\* The fields stop() and Drop act on.
SamplerState == [handle |-> handle, tasks |-> tasks, panicked |-> panicked]

\* if let Some(t) = self.background_task.lock().take() { t.abort() }
stop_unwrap(s) ==
  IF s.handle # None
    THEN [s EXCEPT !.handle = None, !.tasks = abort(s.tasks, s.handle)]
    ELSE [s EXCEPT !.panicked = TRUE]
stop_as_ref(s) ==
  IF s.handle # None
    THEN [s EXCEPT !.tasks = abort(s.tasks, s.handle)]
    ELSE s
stop(s) ==
  IF s.handle # None
    THEN [s EXCEPT !.handle = None, !.tasks = abort(s.tasks, s.handle)]
    ELSE s

\* Drop::drop: self.stop(), then the fields are dropped.
drop_fields_only(s) == [s EXCEPT !.handle = None]
drop(s) == stop(s)

\* start(self) takes the sampler by value: only its owner can call it.
CanStartByRef == callerHolds \/ (startPc = "returned" /\ ~destroyed)
CanStart == callerHolds

SamplerInit ==
  /\ callerHolds = TRUE
  /\ startPc = "idle"
  /\ pending = None
  /\ handle = None
  /\ tasks = [t \in TaskIds |-> NoTask]
  /\ detached = {}
  /\ destroyed = FALSE
  /\ panicked = FALSE
  /\ stopCalls = 0
  /\ gauge = [value |-> 0, sets |-> 0]
  /\ disks = << >>
  /\ runtime = "up"

\* start, up to the spawn: Arc::new(self), Arc::clone, tokio::task::spawn.
StartSpawn(t) ==
  /\ CanStart
  /\ ~panicked
  /\ runtime = "up"
  /\ tasks[t].st = "unspawned"
  /\ \A u \in TaskIds : u < t => tasks[u].st # "unspawned"
  /\ callerHolds' = FALSE
  /\ startPc' = "spawned"
  /\ pending' = t
  /\ tasks' = [tasks EXCEPT ![t] = spawned_task]
  /\ UNCHANGED <<avars, mvars, handle, detached, destroyed, panicked, stopCalls, gauge, disks, runtime>>

\* start, the rest: *lock() = Some(handle), the old slot value is dropped,
\* start returns and rc_self goes out of scope.
StartStore ==
  /\ startPc = "spawned"
  /\ handle' = pending
  /\ detached' = IF handle # None THEN detached \cup {handle} ELSE detached
  /\ pending' = None
  /\ startPc' = "returned"
  /\ UNCHANGED <<avars, mvars, callerHolds, tasks, destroyed, panicked, stopCalls, gauge, disks, runtime>>

\* An explicit stop(&mut self) by the owner of the sampler.
Stop ==
  /\ callerHolds
  /\ ~panicked
  /\ stopCalls < MaxStops
  /\ handle' = stop(SamplerState).handle
  /\ tasks' = stop(SamplerState).tasks
  /\ panicked' = stop(SamplerState).panicked
  /\ stopCalls' = stopCalls + 1
  /\ UNCHANGED <<avars, mvars, callerHolds, startPc, pending, detached, destroyed, gauge, disks, runtime>>

\* The owner lets the sampler go out of scope without starting it.
CallerDrops ==
  /\ callerHolds
  /\ ~panicked
  /\ callerHolds' = FALSE
  /\ UNCHANGED <<avars, mvars, startPc, pending, handle, tasks, detached, destroyed, panicked,
                 stopCalls, gauge, disks, runtime>>

\* Drop for InstrumentedDiskProtection, run when the last owner is gone.
Drop ==
  /\ ~destroyed
  /\ ~callerHolds
  /\ StrongCount = 0
  /\ ~panicked
  /\ handle' = drop(SamplerState).handle
  /\ tasks' = drop(SamplerState).tasks
  /\ panicked' = drop(SamplerState).panicked
  /\ destroyed' = TRUE
  /\ UNCHANGED <<avars, mvars, callerHolds, startPc, pending, detached, stopCalls, gauge, disks, runtime>>

\* background_task: one measurement, up to interval.tick().await.
TaskMeasure(t) ==
  /\ runtime = "up"
  /\ \/ tasks[t].st = "spawned" /\ tasks[t].aborts = 0
     \/ tasks[t].st = "ready"
  /\ gauge.sets < MaxSets
  /\ gauge' = measure_available_disk_space_percent(gauge, disks)
  /\ tasks' = [tasks EXCEPT ![t] = after_measure(@, fnd_disk(disks, Directory) # 0)]
  /\ UNCHANGED <<avars, mvars, callerHolds, startPc, pending, handle, detached, destroyed,
                 panicked, stopCalls, disks, runtime>>

\* background_task: interval.tick() completes and the loop goes round.
TaskTick(t) ==
  /\ runtime = "up"
  /\ tasks[t].st = "waiting"
  /\ tasks[t].aborts = 0
  /\ tasks[t].ticks < MaxTicks
  /\ tasks' = [tasks EXCEPT ![t].st = "ready", ![t].ticks = @ + 1]
  /\ UNCHANGED <<avars, mvars, callerHolds, startPc, pending, handle, detached, destroyed,
                 panicked, stopCalls, gauge, disks, runtime>>

\* The runtime drops a task's future, and with it rc_self_clone, at an await
\* point: because the task was aborted, or because the runtime has shut down.
TaskDropped(t) ==
  /\ \/ tasks[t].st \in {"spawned", "waiting"} /\ tasks[t].aborts > 0
     \/ Alive(t) /\ runtime = "down"
  /\ tasks' = [tasks EXCEPT ![t].st = "ended", ![t].arc = FALSE]
  /\ UNCHANGED <<avars, mvars, callerHolds, startPc, pending, handle, detached, destroyed,
                 panicked, stopCalls, gauge, disks, runtime>>

\* The runtime the task was spawned on shuts down: no task is polled again.
RuntimeShutdown ==
  /\ runtime = "up"
  /\ runtime' = "down"
  /\ UNCHANGED <<avars, mvars, callerHolds, startPc, pending, handle, tasks, detached,
                 destroyed, panicked, stopCalls, gauge, disks>>

\* The operating system mounts a disk.
Mount ==
  /\ Len(disks) < MaxDisks
  /\ \E d \in Disk : disks' = Append(disks, d)
  /\ UNCHANGED <<avars, mvars, callerHolds, startPc, pending, handle, tasks, detached, destroyed,
                 panicked, stopCalls, gauge, runtime>>

\* The operating system unmounts a disk.
Unmount ==
  /\ Len(disks) > 0
  /\ \E i \in 1..Len(disks) :
       disks' = SubSeq(disks, 1, i - 1) \o SubSeq(disks, i + 1, Len(disks))
  /\ UNCHANGED <<avars, mvars, callerHolds, startPc, pending, handle, tasks, detached, destroyed,
                 panicked, stopCalls, gauge, runtime>>

SamplerNext ==
  \/ \E t \in TaskIds : StartSpawn(t)
  \/ StartStore
  \/ Stop
  \/ CallerDrops
  \/ Drop
  \/ \E t \in TaskIds : TaskMeasure(t)
  \/ \E t \in TaskIds : TaskTick(t)
  \/ \E t \in TaskIds : TaskDropped(t)
  \/ RuntimeShutdown
  \/ Mount
  \/ Unmount

(***************************************************************************)
(* One measurement taken alone, over a range of directories and disks.     *)
(***************************************************************************)
Bytes == 0..MaxBytes
Directories == {<< >>, <<"data">>, <<"data", "db">>}
MountPoints == {<< >>, <<"data">>, <<"data", "db">>, <<"mnt">>}

\* A sampler of "/" on a root disk of any size, as in tests::test_metrics.
SpaceSamples ==
  { [dir |-> << >>, ds |-> <<[mount |-> << >>, avail |-> sp[1], total |-> sp[2]]>>] :
      sp \in (Bytes \X Bytes) \cup {<<50, 200>>} }

\* Any directory over any list of mounted disks; the disk in place i has
\* i bytes available of 4.
MountSamples ==
  { [dir |-> d, ds |-> [i \in 1..Len(ms) |-> [mount |-> ms[i], avail |-> i, total |-> 4]]] :
      d \in Directories,
      ms \in UNION {[1..n -> MountPoints] : n \in 0..MaxMounts} }

NoSample == [dir |-> << >>, ds |-> << >>]
Unpublished == [done |-> FALSE, found |-> 0, gauge |-> [value |-> 0, sets |-> 0]]

MeasureIdle == sample = NoSample /\ published = Unpublished

MeasureInit == sample \in SpaceSamples \cup MountSamples /\ published = Unpublished

\* measure_available_disk_space_percent on a fresh gauge.
MeasureOnce ==
  /\ ~published.done
  /\ published' = [done |-> TRUE,
                   found |-> fnd_disk(sample.ds, sample.dir),
                   gauge |-> measure(sample.dir, published.gauge, sample.ds)]
  /\ UNCHANGED <<avars, svars, sample>>

MeasureNext == MeasureOnce

Init == AuthzInit /\ SamplerInit /\ MeasureIdle

InitMeasure == AuthzInit /\ SamplerInit /\ MeasureInit

SpecMeasure == InitMeasure /\ [][MeasureNext]_vars

SpecAuthz == Init /\ [][AuthzNext]_vars

SpecSampler == Init /\ [][SamplerNext]_vars
(***************************************************************************)
(* Properties of AuthorizerInstrumentation.                                *)
(***************************************************************************)
\* The step in which call c gets the inner result and returns.
Completes(c) == call[c].pc = "awaiting" /\ call'[c].pc = "done"
\* The clock delta of a completed call is available.
DeltaAvailable(c) == call[c].tEnd >= call[c].t

\* C3: a call whose inner call returns Ok, with an available clock delta, adds
\* exactly one sample to the success histogram and leaves the error histogram
\* unchanged.
C3_OkRecordsSuccess ==
  [][\A c \in Calls :
       (Completes(c) /\ call'[c].inner.ok /\ call'[c].tEnd >= call[c].t)
         => /\ sample_count(success') = sample_count(success) + 1
            /\ error' = error]_vars

C3_Witness ==
  \E c \in Calls :
    /\ call[c].pc = "done" /\ call[c].inner.ok /\ DeltaAvailable(c)
    /\ sample_count(success) = 1
    /\ sample_count(error) = 0

\* C4: a call whose inner call returns Err, with an available clock delta,
\* adds exactly one sample to the error histogram and leaves the success
\* histogram unchanged; after one Ok call and one Err call, and no other,
\* the counts are success = 1 and error = 1.
C4_ErrRecordsError ==
  [][/\ \A c \in Calls :
          (Completes(c) /\ ~call'[c].inner.ok /\ call'[c].tEnd >= call[c].t)
            => /\ sample_count(error') = sample_count(error) + 1
               /\ success' = success
     /\ (/\ call'[1].pc = "done" /\ call'[1].inner.ok /\ call'[1].tEnd >= call'[1].t
         /\ call'[2].pc = "done" /\ ~call'[2].inner.ok /\ call'[2].tEnd >= call'[2].t
         /\ \A c \in Calls \ {1, 2} : call'[c].pc = "idle")
          => (sample_count(success') = 1 /\ sample_count(error') = 1)]_vars

C4_Witness ==
  /\ call[1].pc = "done" /\ call[1].inner.ok /\ DeltaAvailable(1)
  /\ call[2].pc = "done" /\ ~call[2].inner.ok /\ DeltaAvailable(2)
  /\ \A c \in Calls \ {1, 2} : call[c].pc = "idle"
  /\ sample_count(success) = 1
  /\ sample_count(error) = 1

\* C5: every completed call returned exactly the result its inner call
\* produced, the same Ok payload or the same Err.
C5_ResultPassedThrough ==
  \A c \in Calls : call[c].pc = "done" => call[c].ret = call[c].inner

C5_Witness ==
  \E c, d \in Calls :
    /\ call[c].pc = "done" /\ call[c].ret = Err("verification")
    /\ call[d].pc = "done" /\ call[d].ret = Ok(<<"write_foo">>)

\* C6: a call whose second clock reading is earlier than its first records
\* nothing in either histogram, and returns the inner result.
C6_ClockSkewSkipsRecording ==
  [][\A c \in Calls :
       (Completes(c) /\ call'[c].tEnd < call[c].t)
         => /\ success' = success
            /\ error' = error
            /\ call'[c].ret = call'[c].inner]_vars

C6_Witness ==
  \E c \in Calls :
    /\ call[c].pc = "done" /\ call[c].tEnd < call[c].t
    /\ call[c].ret = call[c].inner
    /\ sample_count(success) = 0
    /\ sample_count(error) = 0

\* The samples both histograms hold.
Observations == sample_count(success) + sample_count(error)

\* C13 as stated: every require_any_permission call records exactly one
\* observation, whatever the clock reads, and when the inner call returns Ok
\* with an empty permission list the caller gets an error while the
\* observation goes to the success histogram and the error histogram is
\* unchanged.
C13_EveryCallRecordsOnce ==
  [][\A c \in Calls :
       (Completes(c) /\ call[c].op = "require_any_permission")
         => /\ Observations' = Observations + 1
            /\ call'[c].inner = Ok(<< >>)
                 => /\ ~call'[c].got.ok
                    /\ sample_count(success') = sample_count(success) + 1
                    /\ error' = error]_vars

\* C13, amended: every require_any_permission call whose clock delta is
\* available records exactly one observation, by the inner outcome: into the
\* success histogram exactly when the inner call returned Ok; and when the
\* inner call returns Ok with an empty permission list the caller gets an
\* error while the observation goes to the success histogram and the error
\* histogram is unchanged.
C13_MeasuredByInnerOutcome ==
  [][\A c \in Calls :
       (Completes(c) /\ call[c].op = "require_any_permission"
          /\ call'[c].tEnd >= call[c].t)
         => /\ Observations' = Observations + 1
            /\ call'[c].inner.ok
                 <=> sample_count(success') = sample_count(success) + 1
            /\ call'[c].inner = Ok(<< >>)
                 => /\ ~call'[c].got.ok
                    /\ sample_count(success') = sample_count(success) + 1
                    /\ error' = error]_vars

\* A require_any_permission call refused because the inner call returned an
\* empty permission list, and counted as a success.
C13_Witness ==
  \E c \in Calls :
    /\ call[c].pc = "done" /\ call[c].op = "require_any_permission"
    /\ call[c].inner = Ok(<< >>) /\ DeltaAvailable(c)
    /\ ~call[c].got.ok
    /\ sample_count(success) = 1
    /\ sample_count(error) = 0

\* C14: once all calls have completed, all with available clock deltas, the
\* success count is the number of calls whose inner result was Ok and the
\* error count the number whose inner result was Err, however the calls
\* interleaved.
C14_ConcurrentCallsIndependent ==
  (\A c \in Calls : call[c].pc = "done" /\ DeltaAvailable(c))
    => /\ sample_count(success) = Cardinality({c \in Calls : call[c].inner.ok})
       /\ sample_count(error) = Cardinality({c \in Calls : ~call[c].inner.ok})

\* All calls completed after being in flight together, one Ok and one Err
\* among them.
C14_Witness ==
  /\ overlapped
  /\ \A c \in Calls : call[c].pc = "done" /\ DeltaAvailable(c)
  /\ \E c, d \in Calls : call[c].inner.ok /\ ~call[d].inner.ok
  /\ Observations = MaxCalls

\* C19: the histograms hold one sample for every call that has returned with
\* an available clock delta and none for any other call: a call still
\* awaiting the inner call, or abandoned while awaiting, has contributed
\* nothing, and beginning or abandoning a call changes neither histogram.
C19_RecordedOnlyAfterInnerCompletes ==
  /\ Observations =
       Cardinality({c \in Calls : call[c].pc = "done" /\ DeltaAvailable(c)})
  /\ (\A c \in Calls : call[c].pc \in {"idle", "awaiting", "abandoned"})
       => (success = EmptyHistogram /\ error = EmptyHistogram)

\* One call awaiting the inner call and one abandoned, with no sample in
\* either histogram.
C19_Witness ==
  /\ \E c, d \in Calls : call[c].pc = "awaiting" /\ call[d].pc = "abandoned"
  /\ Observations = 0

(***************************************************************************)
(* Properties of InstrumentedDiskProtection.                               *)
(***************************************************************************)
\* Running: start has spawned the task and stored its handle.
Running == handle # None /\ Alive(handle)

\* C1: once a started sampler has been dropped by its caller (start has
\* returned, nothing of the sampler is left with the caller) without stop
\* having been called, no background task of it is alive, so none can
\* update the gauge.
C1_DroppedSamplerHasNoTask ==
  (startPc = "returned" /\ ~callerHolds /\ stopCalls = 0)
    => \A t \in TaskIds : ~Alive(t)

\* C2: a sampler in the Running state can be stopped: an explicit stop is
\* possible in every Running state.
C2_RunningCanBeStopped ==
  (Running /\ stopCalls < MaxStops /\ ~panicked) => ENABLED Stop

\* C7: at most one background task is associated with the sampler, start is
\* never applied while the handle slot holds a task, and no stored handle is
\* overwritten without having been aborted.
C7_AtMostOneTask ==
  /\ Cardinality({t \in TaskIds : Alive(t)}) <= 1
  /\ pending # None => handle = None
  /\ detached = {}

C7_Witness == Running /\ startPc = "returned" /\ gauge.sets > 0

\* A step that runs stop: an explicit call, or the one Drop makes.
StopRuns == stopCalls' # stopCalls \/ destroyed' # destroyed

\* C8: stop with an empty handle slot changes nothing and aborts nothing, no
\* stop panics, and every task is aborted at most once.
C8_StopIdempotent ==
  [][/\ (StopRuns /\ handle = None)
          => (handle' = None /\ tasks' = tasks /\ gauge' = gauge)
     /\ ~panicked'
     /\ \A t \in TaskIds : tasks'[t].aborts <= 1]_vars

C8_Witness ==
  /\ stopCalls >= 2
  /\ destroyed
  /\ handle = None
  /\ \E t \in TaskIds : tasks[t].aborts = 1

\* C9: when stop returns on a sampler that held a task handle, the slot is
\* empty and the abort of that task has been requested, in the same step;
\* nothing but stop and the store of start changes the slot.
C9_StopClearsSynchronously ==
  [][/\ (StopRuns /\ handle # None)
          => (handle' = None /\ tasks'[handle].aborts = tasks[handle].aborts + 1)
     /\ handle' # handle
          => (StopRuns \/ (startPc = "spawned" /\ startPc' = "returned"))]_vars

C9_Witness ==
  /\ handle = None
  /\ \E t \in TaskIds : tasks[t].st = "ended" /\ tasks[t].aborts = 1

\* C10: the step that destroys the sampler leaves the handle slot and the
\* tasks exactly as stop would leave them.
C10_DropActsAsStop ==
  [][(~destroyed /\ destroyed')
       => /\ handle' = stop(SamplerState).handle
          /\ tasks' = stop(SamplerState).tasks
          /\ panicked' = stop(SamplerState).panicked]_vars

C10_Witness ==
  /\ destroyed
  /\ stopCalls = 0
  /\ \E t \in TaskIds : tasks[t].aborts > 0
(***************************************************************************)
(* Properties of measure_available_disk_space_percent.                     *)
(***************************************************************************)
\* The disk a lone measurement resolved.
Resolved == published.done /\ published.found # 0
FoundDisk == sample.ds[published.found]

\* C11: a measurement that resolves a disk with total > 0 sets the gauge to
\* round(available / total * 100), a half rounding up; 50 of 200 gives 25.
C11_GaugeIsRoundedPercentage ==
  (Resolved /\ FoundDisk.total > 0)
    => /\ published.gauge.sets = 1
       /\ published.gauge.value = exact_percentage(FoundDisk.avail, FoundDisk.total)

\* The mount points of the sample's disks that enclose its directory.
EnclosingMounts ==
  {sample.ds[i].mount : i \in {j \in 1..Len(sample.ds) : IsPrefix(sample.ds[j].mount, sample.dir)}}

\* C15: the disk selected is mounted at the longest prefix of the directory
\* (the directory itself or its closest ancestor) that is a mount point, and
\* is the first disk listed there; a shorter ancestor such as the root is
\* selected only when no longer one is a mount point; when no prefix is a
\* mount point the search ends with no disk.
C15_NearestEnclosingMount ==
  published.done =>
    IF EnclosingMounts = {} THEN published.found = 0
    ELSE /\ published.found \in 1..Len(sample.ds)
         /\ FoundDisk.mount \in EnclosingMounts
         /\ \A m \in EnclosingMounts : Len(m) <= Len(FoundDisk.mount)
         /\ \A j \in 1..(published.found - 1) : sample.ds[j].mount # FoundDisk.mount

C15_Witness ==
  /\ published.done
  /\ sample.dir = <<"data", "db">>
  /\ Len(sample.ds) = 2
  /\ sample.ds[1].mount = << >>
  /\ sample.ds[2].mount = <<"data">>
  /\ published.found = 2
  /\ published.gauge = [value |-> 50, sets |-> 1]

\* C20: every value set on the gauge for a disk whose available bytes do
\* not exceed its total bytes, total = 0 included, is between 0 and 100.
C20_GaugeIsPercentage ==
  (Resolved /\ FoundDisk.avail <= FoundDisk.total)
    => /\ published.gauge.sets = 1
       /\ published.gauge.value >= 0
       /\ published.gauge.value <= 100

C20_Witness ==
  /\ Resolved
  /\ FoundDisk.total = 0
  /\ FoundDisk.avail = 0
  /\ published.gauge = [value |-> 0, sets |-> 1]

\* A step in which task t makes one measurement.
Measures(t) == tasks'[t].measures = tasks[t].measures + 1

\* A step in which task t completes one tick await.
Ticks(t) == tasks'[t].ticks = tasks[t].ticks + 1

\* C12: a measurement that resolves no mount point for the directory leaves
\* the gauge exactly as it was: at its previous value, or unset if it was
\* never set.
C12_MissingMountKeepsGauge ==
  [][\A t \in TaskIds :
       (Measures(t) /\ fnd_disk(disks, Directory) = 0) => gauge' = gauge]_vars

\* A task whose last measurement found no mount while the gauge still shows
\* the value 25 published by the measurement before it.
C12_Witness ==
  \E t \in TaskIds :
    /\ tasks[t].last = "skipped"
    /\ tasks[t].prev = "published"
    /\ gauge = [value |-> 25, sets |-> 1]

\* C16: a measurement that resolves no mount point never ends the task: the
\* task goes on to its next tick await without panicking, and a later
\* measurement that does resolve a mount publishes that disk's percentage.
C16_UnresolvedTickKeepsTask ==
  [][\A t \in TaskIds :
       /\ (Measures(t) /\ fnd_disk(disks, Directory) = 0) =>
            /\ tasks'[t].st = "waiting"
            /\ tasks'[t].arc
            /\ tasks'[t].aborts = tasks[t].aborts
            /\ panicked' = panicked
       /\ (Measures(t) /\ tasks[t].last = "skipped"
             /\ fnd_disk(disks, Directory) # 0) =>
            /\ gauge'.sets = gauge.sets + 1
            /\ gauge'.value =
                 available_disk_percentage(
                   disks[fnd_disk(disks, Directory)].avail,
                   disks[fnd_disk(disks, Directory)].total)]_vars

\* A task that skipped one measurement and published the next one.
C16_Witness ==
  \E t \in TaskIds :
    /\ tasks[t].prev = "skipped"
    /\ tasks[t].last = "published"
    /\ gauge.sets = 1

\* Time task t has spent in tick awaits, at most: each await completes within
\* one interval.
waited(t) == Interval * tasks[t].ticks

\* C17: the loop measures before it waits. The first measurement is made with
\* no tick await completed, so before one interval has elapsed; measurement
\* k + 1 is made after exactly k completed tick awaits, and a tick await
\* completes only after the measurement before it.
C17_MeasureBeforeWait ==
  [][\A t \in TaskIds :
       /\ Measures(t) => tasks[t].ticks = tasks[t].measures
       /\ (Measures(t) /\ tasks[t].measures = 0) => waited(t) < Interval
       /\ Ticks(t) => tasks[t].measures = tasks[t].ticks + 1]_vars

\* A task that has published on its first measurement, before any tick, and
\* one that has measured twice around one tick.
C17_Witness ==
  /\ \E t \in TaskIds :
       /\ tasks[t].measures = 2
       /\ tasks[t].ticks = 1
       /\ tasks[t].last = "published"
  /\ gauge.sets > 0

====
